---- MODULE Spec2Model ----
(***************************************************************************)
(* The caching proxy of src/main.rs: the two route handlers get_data and   *)
(* auto_get_data, the cache directory ./cached, the local wall clock and   *)
(* the upstream server.  A handler is a sequence of steps, one per         *)
(* filesystem / network operation it awaits; steps of different requests   *)
(* interleave freely.                                                      *)
(***************************************************************************)
EXTENDS Integers, Sequences, FiniteSets, TLC

\* ------------------------------------------------------------------ bounds
\* Number of times the wall clock is observed to advance.
MaxTicks == 2

\* The requests: two, so that each can overlap with another one.
Reqs == {1, 2}

\* ------------------------------------------------------- program constants
\* `file_age.num_minutes() < 10`
FreshMinutes == 10
\* u8 limits of the validity test `day > 31 || month > 12`
MaxDay == 31
MaxMonth == 12

\* ------------------------------------------------------------ input ranges
\* Query values of /?day=&month= (u8), around the limits of the validity test.
Days == {15, 31, 32}
Months == {3, 12, 13}
\* Query values of /auto/?when=
Whens == {"today", "tomorrow", "yesterday"}
\* Upstream HTTP statuses.
Statuses == {200, 404, 503}
\* Bodies upstream can answer with (sequences of bytes).
Bodies == {<<1, 2>>, <<3>>}

\* Dates of the files a previous run may have left in ./cached.
LeftDates == {"15.3.2024", "15.03.2024"}
\* What such a file holds: a body fetched by the previous run.
LeftBodies == {<<1, 2>>}
\* Age, in seconds, of such a file when the server starts (20 minutes).
LeftAge == 1200

\* -------------------------------------------------------------- the clock
\* Local time is counted in seconds from Monday 2024-01-01 00:00:00.
SecondsPerDay == 86400
SecondsPerMinute == 60
EpochYear == 2024
\* Thursday 2024-03-14 23:59:59 and Saturday 2024-03-16 23:59:59.
StartTimes == {73 * SecondsPerDay + 86399, 75 * SecondsPerDay + 86399}
\* Amounts by which the clock is seen to advance: 1 s, 10 min.
TickSteps == {1, 600}

IsLeap(y) == (y % 4 = 0 /\ y % 100 # 0) \/ y % 400 = 0

DaysInMonth(y, m) ==
    IF m = 2 THEN (IF IsLeap(y) THEN 29 ELSE 28)
    ELSE IF m \in {4, 6, 9, 11} THEN 30 ELSE 31

\* chrono::Weekday, in the order of the days counted from the epoch (a Monday).
Weekdays == <<"Mon", "Tue", "Wed", "Thu", "Fri", "Sat", "Sun">>

\* DateTime::weekday() of the instant t.
WeekdayOf(t) == Weekdays[((t \div SecondsPerDay) % 7) + 1]

RECURSIVE CivilFrom(_, _, _)
\* [year, month, day] of the d-th day (from 0) counted from 1 January of y, month m.
CivilFrom(y, m, d) ==
    IF d < DaysInMonth(y, m) THEN [year |-> y, month |-> m, day |-> d + 1]
    ELSE IF m = 12 THEN CivilFrom(y + 1, 1, d - DaysInMonth(y, m))
    ELSE CivilFrom(y, m + 1, d - DaysInMonth(y, m))

\* Datelike::year/month/day of the instant t.
CivilOf(t) == CivilFrom(EpochYear, 1, t \div SecondsPerDay)

\* ----------------------------------------------------------- formatting
Digit(d) ==
    CASE d = 0 -> "0" [] d = 1 -> "1" [] d = 2 -> "2" [] d = 3 -> "3"
      [] d = 4 -> "4" [] d = 5 -> "5" [] d = 6 -> "6" [] d = 7 -> "7"
      [] d = 8 -> "8" [] d = 9 -> "9"

RECURSIVE Display(_)
\* format!("{}", n) of a non-negative integer.
Display(n) == IF n < 10 THEN Digit(n) ELSE Display(n \div 10) \o Digit(n % 10)

\* format!("{:02}", n), also chrono's %d and %m: at least two digits, zero padded.
Pad2(n) == IF n < 10 THEN "0" \o Digit(n) ELSE Display(n)

\* get_data: day padded to two digits, month and year as they are.
ExplicitDate(day, month, t) ==
    Pad2(day) \o "." \o Display(month) \o "." \o Display(CivilOf(t).year)

\* auto_get_data: current_date.format("%d.%m.%Y").
FormatDate(t) ==
    LET c == CivilOf(t)
    IN  Pad2(c.day) \o "." \o Pad2(c.month) \o "." \o Display(c.year)

\* format!("./cached/{}.pdf", date)
CachePath(date) == "./cached/" \o date \o ".pdf"

\* Duration::num_minutes(): whole minutes, truncated toward zero.
\* Minutes rounded to the nearest instead of truncated.
NumMinutesRounded(secs) ==
    IF secs >= 0 THEN (secs + 30) \div SecondsPerMinute
    ELSE -((30 - secs) \div SecondsPerMinute)

NumMinutes(secs) ==
    IF secs >= 0 THEN secs \div SecondsPerMinute
    ELSE -((-secs) \div SecondsPerMinute)

\* ------------------------------------------------------------------ state
VARIABLES
    now,        \* the local wall clock (seconds)
    ticks,      \* how many times the clock advanced
    cache,      \* the directory ./cached: path -> [content, mtime]
    cache0,     \* the directory as the server found it when it started
    pc,         \* where each request's handler stands
    handler,    \* which handler serves the request
    arg,        \* the request's query parameters
    date,       \* the handler's local `date`
    status,     \* the handler's local `response.status()`
    filebytes,  \* the handler's local `filebytes`
    fh,         \* the handler's local `file`: "none", "open" or "unlinked"
    result,     \* what the handler returned
    log         \* the operations the request performed, with their outcomes

vars == <<now, ticks, cache, cache0, pc, handler, arg, date, status, filebytes, fh,
          result, log>>

NoResult == [tag |-> "None", info |-> <<>>]
NoArg == [day |-> 0, month |-> 0, when |-> ""]

\* Local failures reported to the caller as "Error #n, report this problem".
ErrorTags == {"Error1", "Error2", "Error3", "Error4"}
\* Every error payload a handler returns.
UserFacingErrors ==
    ErrorTags \cup {"InvalidDate", "InvalidParameter", "NoSubstitutionsWeekend",
                    "NoLessonsWeekend", "UpstreamUnreachable",
                    "NoSubstitutionsForDate", "UnknownUpstreamStatus"}

Init ==
    /\ now \in StartTimes
    /\ ticks = 0
    /\ \/ cache = <<>>
       \/ \E d \in LeftDates, b \in LeftBodies :
            cache = (CachePath(d) :> [content |-> b, mtime |-> now - LeftAge])
    /\ cache0 = cache
    /\ pc = [r \in Reqs |-> "idle"]
    /\ handler = [r \in Reqs |-> "none"]
    /\ arg = [r \in Reqs |-> NoArg]
    /\ date = [r \in Reqs |-> ""]
    /\ status = [r \in Reqs |-> 0]
    /\ filebytes = [r \in Reqs |-> <<>>]
    /\ fh = [r \in Reqs |-> "none"]
    /\ result = [r \in Reqs |-> NoResult]
    /\ log = [r \in Reqs |-> <<>>]

\* ---------------------------------------------------------------- helpers
Present(path) == path \in DOMAIN cache

\* The directory with `path` holding file f (created or replaced).
Put(path, f) ==
    [p \in DOMAIN cache \cup {path} |-> IF p = path THEN f ELSE cache[p]]

\* A remove_file that reports success and leaves the file.
WithoutNothing(path) == cache

\* The directory without `path`.
Without(path) == [p \in DOMAIN cache \ {path} |-> cache[p]]

\* A file opened for appending: bytes written after the old content.
OverlayAppend(old, bytes) == old \o bytes

\* bytes written at offset 0 over the old content.
Overlay(old, bytes) == bytes \o SubSeq(old, Len(bytes) + 1, Len(old))

\* The handler goes on to step p, having performed ev.
Goto(r, p, ev) ==
    /\ pc' = [pc EXCEPT ![r] = p]
    /\ log' = [log EXCEPT ![r] = Append(@, ev)]
    /\ UNCHANGED result

\* The handler returns Ok(NamedFile) or Err(json), having performed ev;
\* its locals, the file handle among them, are dropped.
Return(r, tag, info, ev) ==
    /\ pc' = [pc EXCEPT ![r] = "done"]
    /\ result' = [result EXCEPT ![r] = [tag |-> tag, info |-> info]]
    /\ log' = [log EXCEPT ![r] = Append(@, ev)]
    /\ fh' = [fh EXCEPT ![r] = "none"]

\* An `.expect(...)` on an Err: the handler unwinds and returns nothing.
Panic(r, ev) == Return(r, "Panic", <<>>, ev)

\* ---------------------------------------------------------------- actions
\* The local wall clock advances.
Tick ==
    /\ ticks < MaxTicks
    /\ \E d \in TickSteps : now' = now + d
    /\ ticks' = ticks + 1
    /\ UNCHANGED <<cache, cache0, pc, handler, arg, date, status, filebytes, fh,
                   result, log>>

\* A validity test that rejects only when both values are out of range.
InvalidBoth(day, month) == day > MaxDay /\ month > MaxMonth

\* if day > 31 || month > 12
Invalid(day, month) == day > MaxDay \/ month > MaxMonth

\* GET /?day=&month= : validation and the canonical date.
get_data(r, day, month) ==
    /\ pc[r] = "idle"
    /\ handler' = [handler EXCEPT ![r] = "get_data"]
    /\ arg' = [arg EXCEPT ![r] = [day |-> day, month |-> month, when |-> ""]]
    /\ IF Invalid(day, month)
       THEN /\ pc' = [pc EXCEPT ![r] = "done"]
            /\ result' = [result EXCEPT ![r] =
                             [tag |-> "InvalidDate", info |-> <<>>]]
            /\ UNCHANGED date
       ELSE /\ pc' = [pc EXCEPT ![r] = "exists"]
            /\ date' = [date EXCEPT ![r] = ExplicitDate(day, month, now)]
            /\ UNCHANGED result
    /\ UNCHANGED <<now, ticks, cache0, cache, status, filebytes, fh, log>>

\* GET /auto/?when= : the token and the weekday of a first clock reading.
auto_get_data(r, when) ==
    /\ pc[r] = "idle"
    /\ handler' = [handler EXCEPT ![r] = "auto_get_data"]
    /\ arg' = [arg EXCEPT ![r] = [day |-> 0, month |-> 0, when |-> when]]
    /\ LET wd == WeekdayOf(now)
           reject(tag, msg) ==
               /\ pc' = [pc EXCEPT ![r] = "done"]
               /\ result' = [result EXCEPT ![r] = [tag |-> tag, info |-> msg]]
           accept ==
               /\ pc' = [pc EXCEPT ![r] = "current_date"]
               /\ UNCHANGED result
       IN  IF when = "tomorrow"
           THEN IF wd = "Fri" THEN reject("NoSubstitutionsWeekend", <<"Sat">>)
                ELSE IF wd = "Sat"
                     THEN reject("NoSubstitutionsWeekend", <<"Sun">>)
                     ELSE accept
           ELSE IF when = "today"
           THEN IF wd = "Sat" THEN reject("NoLessonsWeekend", <<"Sat">>)
                ELSE IF wd = "Sun" THEN reject("NoLessonsWeekend", <<"Sun">>)
                     ELSE accept
           ELSE reject("InvalidParameter", <<>>)
    /\ UNCHANGED <<now, ticks, cache0, cache, date, status, filebytes, fh, log>>

\* A current_date that forgets the day added for "tomorrow".
CurrentDateNoShift(r) ==
    /\ pc[r] = "current_date"
    /\ date' = [date EXCEPT ![r] = FormatDate(now)]
    /\ pc' = [pc EXCEPT ![r] = "exists"]
    /\ UNCHANGED <<now, ticks, cache0, cache, handler, arg, status, filebytes, fh,
                   result, log>>

\* auto_get_data: a second clock reading gives current_date, then `date`.
CurrentDate(r) ==
    /\ pc[r] = "current_date"
    /\ LET current_date ==
               IF arg[r].when = "tomorrow" THEN now + SecondsPerDay ELSE now
       IN  date' = [date EXCEPT ![r] = FormatDate(current_date)]
    /\ pc' = [pc EXCEPT ![r] = "exists"]
    /\ UNCHANGED <<now, ticks, cache0, cache, handler, arg, status, filebytes, fh,
                   result, log>>

\* std::path::Path::new(&filename_pdf).exists()
Exists(r) ==
    /\ pc[r] = "exists"
    /\ IF Present(CachePath(date[r]))
       THEN Goto(r, "metadata", <<"exists", "yes">>)
       ELSE Goto(r, "get", <<"exists", "no">>)
    /\ UNCHANGED <<now, ticks, cache0, cache, handler, arg, date, status, filebytes, fh>>

\* A lookup that still finds a file of ten whole minutes fresh.
MetadataInclusive(r) ==
    /\ pc[r] = "metadata"
    /\ LET path == CachePath(date[r])
       IN  IF ~Present(path)
           THEN Panic(r, <<"metadata", "gone">>)
           ELSE \/ Panic(r, <<"metadata", "fail">>)
                \/ /\ NumMinutes(now - cache[path].mtime) <= FreshMinutes
                   /\ Goto(r, "open_cached", <<"metadata", "fresh">>)
                   /\ UNCHANGED fh
                \/ /\ ~(NumMinutes(now - cache[path].mtime) <= FreshMinutes)
                   /\ Goto(r, "remove_file", <<"metadata", "stale">>)
                   /\ UNCHANGED fh
    /\ UNCHANGED <<now, ticks, cache0, cache, handler, arg, date, status, filebytes>>

\* fs::metadata(..).expect(..), modified().expect(..) and the age test.
Metadata(r) ==
    /\ pc[r] = "metadata"
    /\ LET path == CachePath(date[r])
       IN  IF ~Present(path)
           THEN Panic(r, <<"metadata", "gone">>)
           ELSE \/ Panic(r, <<"metadata", "fail">>)
                \/ /\ NumMinutes(now - cache[path].mtime) < FreshMinutes
                   /\ Goto(r, "open_cached", <<"metadata", "fresh">>)
                   /\ UNCHANGED fh
                \/ /\ ~(NumMinutes(now - cache[path].mtime) < FreshMinutes)
                   /\ Goto(r, "remove_file", <<"metadata", "stale">>)
                   /\ UNCHANGED fh
    /\ UNCHANGED <<now, ticks, cache0, cache, handler, arg, date, status, filebytes>>

\* Serving a fresh file that also renews its modification time.
OpenCachedTouch(r) ==
    /\ pc[r] = "open_cached"
    /\ LET path == CachePath(date[r])
       IN  IF ~Present(path)
           THEN Panic(r, <<"open", "gone">>) /\ UNCHANGED cache
           ELSE \/ Panic(r, <<"open", "fail">>) /\ UNCHANGED cache
                \/ /\ Return(r, "Served", cache[path].content, <<"open", "ok">>)
                   /\ cache' = Put(path, [cache[path] EXCEPT !.mtime = now])
    /\ UNCHANGED <<now, ticks, cache0, handler, arg, date, status, filebytes>>

\* return Ok(NamedFile::open(&filename_pdf).await.expect(..)) of a fresh file.
OpenCached(r) ==
    /\ pc[r] = "open_cached"
    /\ LET path == CachePath(date[r])
       IN  IF ~Present(path)
           THEN Panic(r, <<"open", "gone">>)
           ELSE \/ Panic(r, <<"open", "fail">>)
                \/ Return(r, "Served", cache[path].content, <<"open", "ok">>)
    /\ UNCHANGED <<now, ticks, cache0, cache, handler, arg, date, status, filebytes>>

\* fs::remove_file(&filename_pdf).await.expect(..) of a stale file.
RemoveFile(r) ==
    /\ pc[r] = "remove_file"
    /\ LET path == CachePath(date[r])
       IN  IF ~Present(path)
           THEN Panic(r, <<"remove_file", "gone">>) /\ UNCHANGED cache
           ELSE \/ Panic(r, <<"remove_file", "fail">>) /\ UNCHANGED cache
                \/ /\ cache' = Without(path)
                   /\ Goto(r, "get", <<"remove_file", "ok">>)
                   \* handles other requests hold on the file outlive its name
                   /\ fh' = [q \in Reqs |->
                               IF fh[q] = "open" /\ date[q] = date[r]
                               THEN "unlinked" ELSE fh[q]]
    /\ UNCHANGED <<now, ticks, cache0, handler, arg, date, status, filebytes>>

\* reqwest::get(".../pliki/<date>.pdf") and the dispatch on response.status().
Get(r) ==
    /\ pc[r] = "get"
    /\ \/ /\ Return(r, "UpstreamUnreachable", <<>>, <<"get", "err">>)
          /\ UNCHANGED status
       \/ \E st \in Statuses :
            /\ status' = [status EXCEPT ![r] = st]
            /\ IF st = 200
               THEN Goto(r, "create", <<"get", Display(st)>>) /\ UNCHANGED fh
               ELSE IF st = 404
               THEN Return(r, "NoSubstitutionsForDate", <<date[r]>>, <<"get", Display(st)>>)
               ELSE Return(r, "UnknownUpstreamStatus", <<st>>, <<"get", Display(st)>>)
    /\ UNCHANGED <<now, ticks, cache0, cache, handler, arg, date, filebytes>>

\* fs::File::create(&filename_pdf): the file is made, or emptied if it is there.
Create(r) ==
    /\ pc[r] = "create"
    /\ \/ Return(r, "Error1", <<>>, <<"create", "fail">>) /\ UNCHANGED cache
       \/ /\ cache' = Put(CachePath(date[r]), [content |-> <<>>, mtime |-> now])
          /\ fh' = [fh EXCEPT ![r] = "open"]
          /\ Goto(r, "bytes", <<"create", "ok">>)
    /\ UNCHANGED <<now, ticks, cache0, handler, arg, date, status, filebytes>>

\* response.bytes(): the whole body, or a failure while reading it.
Bytes(r) ==
    /\ pc[r] = "bytes"
    /\ \/ Return(r, "Error2", <<>>, <<"bytes", "fail">>) /\ UNCHANGED filebytes
       \/ \E b \in Bodies :
            /\ filebytes' = [filebytes EXCEPT ![r] = b]
            /\ Goto(r, "write_all", <<"bytes", "ok">>)
            /\ UNCHANGED fh
    /\ UNCHANGED <<now, ticks, cache0, cache, handler, arg, date, status>>

\* The directory after the handle of r has written `bytes` from offset 0.
Written(r, bytes) ==
    LET path == CachePath(date[r])
    IN  IF fh[r] = "open" /\ Present(path) /\ Len(bytes) > 0
        THEN Put(path, [content |-> Overlay(cache[path].content, bytes),
                        mtime |-> now])
        ELSE cache

\* A write_all whose Err is not returned: the handler goes on to open.
WriteAllUnchecked(r) ==
    /\ pc[r] = "write_all"
    /\ \E n \in 0..Len(filebytes[r]) :
         /\ cache' = Written(r, SubSeq(filebytes[r], 1, n))
         /\ Goto(r, "open", <<"write_all",
                               IF n = Len(filebytes[r]) THEN "ok" ELSE "fail">>)
         /\ UNCHANGED fh
    /\ UNCHANGED <<now, ticks, cache0, handler, arg, date, status, filebytes>>

\* file.write_all(&filebytes): all the bytes, or a failure after some of them.
WriteAll(r) ==
    /\ pc[r] = "write_all"
    /\ \E n \in 0..Len(filebytes[r]) :
         /\ cache' = Written(r, SubSeq(filebytes[r], 1, n))
         /\ IF n = Len(filebytes[r])
            THEN Goto(r, "open", <<"write_all", "ok">>) /\ UNCHANGED fh
            ELSE Return(r, "Error3", <<>>, <<"write_all", "fail">>)
    /\ UNCHANGED <<now, ticks, cache0, handler, arg, date, status, filebytes>>

\* NamedFile::open(&filename_pdf) of the stored file: get_data expects it,
\* auto_get_data matches on it.
Open(r) ==
    /\ pc[r] = "open"
    /\ LET path == CachePath(date[r])
           failed(ev) == IF handler[r] = "get_data"
                         THEN Panic(r, ev)
                         ELSE Return(r, "Error4", <<>>, ev)
       IN  IF ~Present(path)
           THEN failed(<<"open", "gone">>)
           ELSE \/ failed(<<"open", "fail">>)
                \/ Return(r, "Served", cache[path].content, <<"open", "ok">>)
    /\ UNCHANGED <<now, ticks, cache0, cache, handler, arg, date, status, filebytes>>

\* One step of the handler of request r.
Step(r) ==
    \/ \E day \in Days, month \in Months : get_data(r, day, month)
    \/ \E when \in Whens : auto_get_data(r, when)
    \/ CurrentDate(r)
    \/ Exists(r)
    \/ Metadata(r)
    \/ OpenCached(r)
    \/ RemoveFile(r)
    \/ Get(r)
    \/ Create(r)
    \/ Bytes(r)
    \/ WriteAll(r)
    \/ Open(r)

Next ==
    \/ Tick
    \/ \E r \in Reqs : Step(r)

\* Requests overlap freely.
Spec == Init /\ [][Next]_vars

\* No request is in flight but, possibly, r.
Alone(r) == \A q \in Reqs \ {r} : pc[q] \in {"idle", "done"}

NextSeq ==
    \/ Tick
    \/ \E r \in Reqs : Alone(r) /\ Step(r)

\* Requests arrive one after the other: each ends before the next begins.
SpecSeq == Init /\ [][NextSeq]_vars

TypeOK ==
    /\ pc \in [Reqs -> {"idle", "current_date", "exists", "metadata",
                        "open_cached", "remove_file", "get", "create", "bytes",
                        "write_all", "open", "done"}]
    /\ fh \in [Reqs -> {"none", "open", "unlinked"}]
    /\ \A r \in Reqs : result[r].tag \in UserFacingErrors \cup {"None", "Served", "Panic"}

\* ------------------------------------------------------- reading the log
\* The outcomes operation op had in request r.
Outcomes(r, op) == {log[r][i][2] : i \in {j \in DOMAIN log[r] : log[r][j][1] = op}}

\* Request r performed op with outcome out.
Did(r, op, out) == \E i \in DOMAIN log[r] : log[r][i] = <<op, out>>

\* How many upstream requests r issued.
Fetches(r) == Cardinality({i \in DOMAIN log[r] : log[r][i][1] = "get"})

\* A filesystem operation of r failed although the file was there.
Faulted(r) == \E i \in DOMAIN log[r] : log[r][i][2] = "fail"

Done(r) == pc[r] = "done"

\* ------------------------------------------------------------------ claims

\* C1: every request handled by get_data or auto_get_data ends with a
\* returned file handle or a returned error payload; a failing metadata
\* read, delete or open yields a returned error, never an aborted handler.
C1_EveryRequestReturns ==
    \A r \in Reqs :
        Done(r) => result[r].tag \in {"Served"} \cup UserFacingErrors

\* C2: with no request in flight, every file of the cache directory holds
\* the complete body of an upstream 200 response; no request leaves an
\* empty or partly written file behind.
C2_CacheHoldsCompleteBodies ==
    (\A r \in Reqs : pc[r] \in {"idle", "done"})
        => \A p \in DOMAIN cache : cache[p].content \in Bodies

\* C3: the result of a request that reaches the upstream fetch is decided by
\* the upstream outcome: 404 gives NoSubstitutionsForDate with the date, any
\* other status but 200 gives UnknownUpstreamStatus with the status, a 200
\* whose body is read goes on to be stored, and a failed connection and a
\* failed body read both give UpstreamUnreachable.
C3_UpstreamOutcomeDecidesResult ==
    \A r \in Reqs :
        Done(r) =>
            /\ Did(r, "get", "err") => result[r].tag = "UpstreamUnreachable"
            /\ Did(r, "get", "404") =>
                   result[r] = [tag |-> "NoSubstitutionsForDate",
                                info |-> <<date[r]>>]
            /\ \A st \in Statuses \ {200, 404} :
                   Did(r, "get", Display(st)) =>
                       result[r] = [tag |-> "UnknownUpstreamStatus",
                                    info |-> <<st>>]
            /\ Did(r, "bytes", "ok") => Outcomes(r, "write_all") # {}
            /\ Did(r, "bytes", "fail") => result[r].tag = "UpstreamUnreachable"

\* C4: with no file cached for the date and upstream answering 200 with bytes
\* B, the request for day=15, month=3 in 2024 stores ./cached/15.03.2024.pdf
\* with content B and returns a handle to it.
C4_StoredAsCanonicalPdf ==
    \A r \in Reqs :
        ( /\ Done(r)
          /\ handler[r] = "get_data"
          /\ arg[r].day = 15 /\ arg[r].month = 3
          /\ CivilOf(now).year = 2024
          /\ Did(r, "exists", "no")
          /\ result[r].tag = "Served"
          /\ \A q \in Reqs \ {r} : pc[q] = "idle" )
        => /\ "./cached/15.03.2024.pdf" \in DOMAIN cache
           /\ cache["./cached/15.03.2024.pdf"].content = filebytes[r]
           /\ result[r].info = filebytes[r]

\* C5: a request whose lookup finds a Fresh file issues no upstream request
\* and returns the file leaving its content and modification time as they
\* were; one whose lookup finds no file, or evicts a Stale one, issues
\* exactly one; no request issues a second one.
C5_AtMostOneUpstreamRequest ==
    /\ [](\A r \in Reqs :
            /\ Fetches(r) <= 1
            /\ Done(r) /\ Did(r, "metadata", "fresh") => Fetches(r) = 0
            /\ Done(r) /\ (Did(r, "exists", "no") \/ Did(r, "remove_file", "ok"))
                   => Fetches(r) = 1)
    /\ [][\A r \in Reqs :
            pc[r] = "open_cached" /\ pc'[r] # pc[r] => cache' = cache]_vars

\* Both cases of C5 have happened: a fetch after a miss, no fetch after a hit.
C5_Witness ==
    \E r, q \in Reqs :
        /\ Done(r) /\ Did(r, "exists", "no") /\ Fetches(r) = 1
        /\ Done(q) /\ Did(q, "metadata", "fresh") /\ result[q].tag = "Served"
        /\ Fetches(q) = 0

\* C6 as stated: a request whose upstream response status is not 200 writes
\* no file, and when it ends the cache holds no file for its date.
C6_NoFileOnNon200 ==
    [][\A r \in Reqs :
         (~Done(r) /\ pc'[r] = "done" /\ status'[r] \notin {0, 200})
            => /\ CachePath(date'[r]) \notin DOMAIN cache'
               /\ \A i \in DOMAIN log'[r] :
                      log'[r][i][1] \notin {"create", "write_all"}]_vars

\* C6, amended: a request whose upstream response status is not 200 creates
\* and writes no file, and when it ends the cache holds no file for its date
\* (a stale file it found is deleted) unless another request for the same
\* date has created one meanwhile.
C6_NoFileOfItsOwnOnNon200 ==
    [][\A r \in Reqs :
         (~Done(r) /\ pc'[r] = "done" /\ status'[r] \notin {0, 200})
            => /\ \A i \in DOMAIN log'[r] :
                      log'[r][i][1] \notin {"create", "write_all"}
               /\ CachePath(date'[r]) \in DOMAIN cache'
                      => \E q \in Reqs \ {r} :
                             date[q] = date[r] /\ Did(q, "create", "ok")]_vars

\* A stale file was found and deleted, upstream said 404, and no file is left.
C6_Witness ==
    \E r \in Reqs :
        /\ Done(r) /\ Did(r, "metadata", "stale") /\ Did(r, "remove_file", "ok")
        /\ Did(r, "get", "404") /\ result[r].tag = "NoSubstitutionsForDate"
        /\ CachePath(date[r]) \in DOMAIN cache0
        /\ CachePath(date[r]) \notin DOMAIN cache

\* C7: when creating the cache file or writing the bytes to it fails, the
\* request ends in a returned error: it does not go on to open the file and
\* does not return a file.
C7_NoPartialSuccess ==
    \A r \in Reqs :
        /\ Did(r, "create", "fail") =>
               /\ Done(r) /\ result[r].tag = "Error1"
               /\ Outcomes(r, "bytes") \cup Outcomes(r, "write_all")
                      \cup Outcomes(r, "open") = {}
        /\ Did(r, "write_all", "fail") =>
               /\ Done(r) /\ result[r].tag = "Error3"
               /\ Outcomes(r, "open") = {}

\* A write failed after part of the bytes, and a create failed.
C7_Witness ==
    \E r, q \in Reqs :
        /\ Did(r, "write_all", "fail") /\ Done(r)
        /\ CachePath(date[r]) \in DOMAIN cache
        /\ cache[CachePath(date[r])].content = <<1>>
        /\ Did(q, "create", "fail")

\* Request r ran to its end with every local operation succeeding where the
\* file was there, and every upstream request it made answered 200 with b.
Clean(r, b) ==
    /\ Done(r)
    /\ \A i \in DOMAIN log[r] :
           /\ log[r][i][2] # "fail"
           /\ log[r][i][1] = "get" => log[r][i][2] = "200"
    /\ filebytes[r] \in {<<>>, b}

\* C8: two requests for the same date never seen before, overlapping in any
\* way, with upstream answering 200 with the same bytes B to each fetch, make
\* at most two upstream requests in total, and once both have ended the
\* cached file of that date holds exactly B.
C8_TwoMissesOneConsistentFile ==
    \A b \in Bodies :
        ( /\ date[1] = date[2] /\ date[1] # ""
          /\ CachePath(date[1]) \notin DOMAIN cache0
          /\ Clean(1, b) /\ Clean(2, b) )
        => /\ Fetches(1) + Fetches(2) <= 2
           /\ CachePath(date[1]) \in DOMAIN cache
           /\ cache[CachePath(date[1])].content = b

\* Both requests missed, both fetched, and the file holds the bytes.
C8_Witness ==
    /\ date[1] = date[2] /\ date[1] # ""
    /\ CachePath(date[1]) \notin DOMAIN cache0
    /\ Clean(1, <<1, 2>>) /\ Clean(2, <<1, 2>>)
    /\ Fetches(1) = 1 /\ Fetches(2) = 1
    /\ cache[CachePath(date[1])].content = <<1, 2>>

\* Request r looked its date up and did not find a Fresh file.
Missed(r) ==
    /\ Outcomes(r, "exists") # {}
    /\ ~Did(r, "metadata", "fresh")

\* C9: two concurrent requests for the same date, neither finding a Fresh
\* file, both go through the upstream fetch whatever the other one's cache
\* operations, and each ends Served or with a tagged error.
C9_MissesProceedIndependently ==
    \A r \in Reqs : \A q \in Reqs \ {r} :
        ( /\ Done(r) /\ Done(q)
          /\ date[r] = date[q]
          /\ Missed(r) /\ Missed(q)
          /\ ~Faulted(r) )
        => /\ Fetches(r) = 1
           /\ result[r].tag \in {"Served"} \cup UserFacingErrors

\* The results that reject a request before it resolves a date.
Rejections ==
    {"InvalidDate", "InvalidParameter", "NoSubstitutionsWeekend",
     "NoLessonsWeekend"}

\* C10: an explicit request is rejected with InvalidDate exactly when
\* day > 31 or month > 12, a relative one with InvalidParameter exactly when
\* the token is neither "today" nor "tomorrow"; these rejections and the
\* weekend ones are returned before any I/O and leave the cache as it was.
C10_RejectedBeforeAnyIO ==
    /\ [](\A r \in Reqs :
            result[r].tag \in Rejections => Done(r) /\ log[r] = <<>>)
    /\ [][\A r \in Reqs :
            (pc[r] = "idle" /\ pc'[r] # "idle") =>
              /\ handler'[r] = "get_data" =>
                   ((result'[r].tag = "InvalidDate")
                      <=> (arg'[r].day > 31 \/ arg'[r].month > 12))
              /\ handler'[r] = "auto_get_data" =>
                   ((result'[r].tag = "InvalidParameter")
                      <=> (arg'[r].when \notin {"today", "tomorrow"}))
              /\ result'[r].tag # "None" =>
                   /\ result'[r].tag \in Rejections
                   /\ cache' = cache]_vars

\* A request rejected for its date and one rejected for the weekend, with a
\* file in the cache left as it was.
C10_Witness ==
    \E r, q \in Reqs :
        /\ result[r].tag = "InvalidDate" /\ arg[r].day = 15 /\ arg[r].month = 13
        /\ result[q].tag \in {"NoSubstitutionsWeekend", "NoLessonsWeekend"}
        /\ cache = cache0 /\ cache # <<>>


\* Two decimal digits of n < 100.
TwoDigits(n) == Digit(n \div 10) \o Digit(n % 10)

\* C11: for every valid day and month the explicit path produces the date
\* DD.MM.YYYY: two-digit day, two-digit month, the current local year (2024
\* throughout the runs of Spec); it is the stem of the cache file name.
C11_ExplicitDateIsDDMMYYYY ==
    \A r \in Reqs :
        (handler[r] = "get_data" /\ date[r] # "")
            => date[r] = TwoDigits(arg[r].day) \o "." \o TwoDigits(arg[r].month)
                            \o ".2024"

\* ---------------------------------------------- the resolver, clock fixed
\* Days counted from the epoch on which the relative endpoint is asked: the
\* week of Monday 11 to Sunday 17 March 2024, Thursday 29 February 2024 and
\* Tuesday 31 December 2024.
AskedDays == {70, 71, 72, 73, 74, 75, 76, 59, 365}

\* The server at noon of one of those days, the cache empty.
InitFixedClock ==
    /\ \E d \in AskedDays : now = d * SecondsPerDay + 43200
    /\ ticks = 0
    /\ cache = <<>>
    /\ cache0 = cache
    /\ pc = [r \in Reqs |-> "idle"]
    /\ handler = [r \in Reqs |-> "none"]
    /\ arg = [r \in Reqs |-> NoArg]
    /\ date = [r \in Reqs |-> ""]
    /\ status = [r \in Reqs |-> 0]
    /\ filebytes = [r \in Reqs |-> <<>>]
    /\ fh = [r \in Reqs |-> "none"]
    /\ result = [r \in Reqs |-> NoResult]
    /\ log = [r \in Reqs |-> <<>>]

\* The date resolution of auto_get_data alone.
NextResolve ==
    \E r \in Reqs :
        \/ \E when \in Whens : auto_get_data(r, when)
        \/ CurrentDate(r)

\* Relative requests resolved while the clock stands still.
SpecFixedClock == InitFixedClock /\ [][NextResolve]_vars

\* The calendar: weekday, date and next day's date of each of AskedDays.
Calendar(d) ==
    CASE d = 70 -> [wd |-> "Mon", today |-> "11.03.2024", tomorrow |-> "12.03.2024"]
      [] d = 71 -> [wd |-> "Tue", today |-> "12.03.2024", tomorrow |-> "13.03.2024"]
      [] d = 72 -> [wd |-> "Wed", today |-> "13.03.2024", tomorrow |-> "14.03.2024"]
      [] d = 73 -> [wd |-> "Thu", today |-> "14.03.2024", tomorrow |-> "15.03.2024"]
      [] d = 74 -> [wd |-> "Fri", today |-> "15.03.2024", tomorrow |-> "16.03.2024"]
      [] d = 75 -> [wd |-> "Sat", today |-> "16.03.2024", tomorrow |-> "17.03.2024"]
      [] d = 76 -> [wd |-> "Sun", today |-> "17.03.2024", tomorrow |-> "18.03.2024"]
      [] d = 59 -> [wd |-> "Thu", today |-> "29.02.2024", tomorrow |-> "01.03.2024"]
      [] d = 365 -> [wd |-> "Tue", today |-> "31.12.2024", tomorrow |-> "01.01.2025"]

\* C12: on a fixed clock "tomorrow" fails with NoSubstitutionsWeekend on
\* Friday and Saturday and otherwise resolves to the next day; "today" fails
\* with NoLessonsWeekend on Saturday and Sunday and otherwise resolves to the
\* day itself; the date is formatted DD.MM.YYYY.
C12_WeekdayTable ==
    \A r \in Reqs :
        LET c == Calendar(now \div SecondsPerDay)
        IN  /\ (pc[r] # "idle" /\ arg[r].when = "tomorrow") =>
                  IF c.wd \in {"Fri", "Sat"}
                  THEN Done(r) /\ result[r].tag = "NoSubstitutionsWeekend"
                  ELSE /\ pc[r] \in {"current_date", "exists"}
                       /\ pc[r] = "exists" => date[r] = c.tomorrow
            /\ (pc[r] # "idle" /\ arg[r].when = "today") =>
                  IF c.wd \in {"Sat", "Sun"}
                  THEN Done(r) /\ result[r].tag = "NoLessonsWeekend"
                  ELSE /\ pc[r] \in {"current_date", "exists"}
                       /\ pc[r] = "exists" => date[r] = c.today

\* On a Sunday: "tomorrow" resolved to Monday, "today" refused.
C12_Witness ==
    /\ now \div SecondsPerDay = 76
    /\ \E r, q \in Reqs :
         /\ arg[r].when = "tomorrow" /\ pc[r] = "exists" /\ date[r] = "18.03.2024"
         /\ arg[q].when = "today" /\ result[q].tag = "NoLessonsWeekend"


\* ------------------------------------------------- the lookup, file by age
\* The oldest file looked up, and how far in the future a modification time
\* may lie (seconds).
MaxAge == 900
MaxSkew == 60

\* The server holding one file for 15.3.2024 of a known age.
InitAged ==
    /\ now = 73 * SecondsPerDay + 43200
    /\ ticks = 0
    /\ \E age \in (0 - MaxSkew)..MaxAge :
         cache = (CachePath("15.3.2024") :> [content |-> <<1, 2>>,
                                              mtime |-> now - age])
    /\ cache0 = cache
    /\ pc = [r \in Reqs |-> "idle"]
    /\ handler = [r \in Reqs |-> "none"]
    /\ arg = [r \in Reqs |-> NoArg]
    /\ date = [r \in Reqs |-> ""]
    /\ status = [r \in Reqs |-> 0]
    /\ filebytes = [r \in Reqs |-> <<>>]
    /\ fh = [r \in Reqs |-> "none"]
    /\ result = [r \in Reqs |-> NoResult]
    /\ log = [r \in Reqs |-> <<>>]

\* One explicit request for that date, up to the decision on the file's age.
NextLookup ==
    \/ get_data(1, 15, 3)
    \/ Exists(1)
    \/ Metadata(1)

SpecLookup == InitAged /\ [][NextLookup]_vars

\* The age of the file the server started with, in seconds.
AgeOfLeft == now - cache0[CachePath("15.3.2024")].mtime

\* C13: the lookup finds the file Fresh exactly when its age is under ten
\* minutes: Fresh at 9 min 59 s and at 5 min, Stale at 10 min 0 s and at
\* 15 min; comparing the truncated whole minutes with 10 agrees with
\* comparing the age with 600 s, for every age.
C13_FreshIffUnderTenMinutes ==
    /\ (NumMinutes(AgeOfLeft) < FreshMinutes) <=> (AgeOfLeft < 600)
    /\ Did(1, "metadata", "fresh") => AgeOfLeft < 600
    /\ Did(1, "metadata", "stale") => AgeOfLeft >= 600
    /\ (pc[1] \in {"open_cached", "remove_file"}) =>
          /\ AgeOfLeft = 599 => Did(1, "metadata", "fresh")
          /\ AgeOfLeft = 300 => Did(1, "metadata", "fresh")
          /\ AgeOfLeft = 600 => Did(1, "metadata", "stale")
          /\ AgeOfLeft = 900 => Did(1, "metadata", "stale")
          /\ pc[1] = "open_cached" <=> Did(1, "metadata", "fresh")

\* A file of exactly ten minutes found stale.
C13_Witness ==
    AgeOfLeft = 600 /\ pc[1] = "remove_file" /\ Did(1, "metadata", "stale")


\* C14: a request whose lookup found the file stale deletes it before it
\* asks upstream and never returns the stale file: it ends Served with newly
\* fetched content (the complete body of a 200 response) or with an error.
C14_StaleEvictedBeforeFetch ==
    \A r \in Reqs :
        Did(r, "metadata", "stale") =>
            /\ \A i \in 1..Len(log[r]) :
                  log[r][i][1] = "get" =>
                      \E j \in 1..(i - 1) : log[r][j] = <<"remove_file", "ok">>
            /\ Did(r, "open", "ok") => Did(r, "write_all", "ok")
            /\ Done(r) => result[r].tag \in UserFacingErrors \cup {"Served", "Panic"}
            /\ result[r].tag = "Served" =>
                  /\ Did(r, "get", "200") /\ Did(r, "open", "ok")
                  /\ result[r].info \in Bodies


\* C15: whenever a request ends Served, the file it opened held, at that
\* moment, the complete body of an upstream 200 response for the date, under
\* every interleaving with other requests for the same date.
C15_ServedIsCompleteBody ==
    \A r \in Reqs : result[r].tag = "Served" => result[r].info \in Bodies \cup LeftBodies

\* C16: the date a relative request resolves to is never a Saturday or a
\* Sunday (16.03.2024 and 17.03.2024 are the weekend within reach of the
\* clock), also when the clock advances between the handler's clock reads.
C16_RelativeDateNeverWeekend ==
    \A r \in Reqs :
        handler[r] = "auto_get_data" => date[r] \notin {"16.03.2024", "17.03.2024"}

\* C17: an explicit request with the day and month of a date and a relative
\* request resolving to that date use the same date string, hence the same
\* cache file and upstream URL; here for Friday 15 March 2024.
C17_EndpointsAgreeOnCacheKey ==
    \A r, q \in Reqs :
        ( /\ handler[r] = "get_data" /\ date[r] # ""
          /\ arg[r].day = 15 /\ arg[r].month = 3
          /\ handler[q] = "auto_get_data" /\ date[q] = "15.03.2024" )
            => /\ date[r] = date[q]
               /\ CachePath(date[r]) = CachePath(date[q])


\* The file a request works on, or <<>> when the directory has none.
FileOf(r) ==
    IF Present(CachePath(date[r])) THEN <<cache[CachePath(date[r])].content>> ELSE <<>>

\* C18: after date resolution get_data and auto_get_data are the same state
\* machine: having met the same sequence of filesystem and upstream outcomes
\* (and received the same body) they end with the same kind of result and
\* leave their cache file in the same state: both absent or both present,
\* and with the same content once the write succeeded.
C18_HandlersSameAfterResolution ==
    \A r, q \in Reqs :
        ( /\ handler[r] = "get_data" /\ handler[q] = "auto_get_data"
          /\ Done(r) /\ Done(q)
          /\ log[r] # <<>> /\ log[r] = log[q]
          /\ filebytes[r] = filebytes[q] )
            => /\ result[r].tag = result[q].tag
               /\ Len(FileOf(r)) = Len(FileOf(q))
               /\ Did(r, "write_all", "ok") => FileOf(r) = FileOf(q)


\* Request r ran to its end, no local operation failing and every upstream
\* request answered 200.
Smooth(r) ==
    /\ Done(r)
    /\ \A i \in DOMAIN log[r] :
           /\ log[r][i][2] \notin {"fail", "gone"}
           /\ log[r][i][1] = "get" => log[r][i][2] = "200"

====
